---- MODULE Spec2Model ----
(***************************************************************************)
(* The jewelry workflow dashboards: src/jewelryapp.py (the generic shop    *)
(* variant) and src/app_rick.py (the "Rick Terry" variant).  Each is a     *)
(* Streamlit script: every user interaction re-runs the whole script top   *)
(* to bottom against st.session_state (two data frames, one per job        *)
(* category) and two CSV files.                                            *)
(*                                                                         *)
(* A data frame is a sequence of rows; a row is a record of cells.  Text   *)
(* cells are sequences of one-character strings, so that strip(), lower()  *)
(* and str.contains() are computed character by character.  A missing      *)
(* value (pandas NaN: an empty CSV field after read_csv) is the cell NaN.  *)
(***************************************************************************)
EXTENDS Integers, Sequences, FiniteSets, TLC

VARIABLES
    variant,    \* "generic" (jewelryapp.py) or "rick" (app_rick.py)
    natRaises,  \* the pandas build: NaT < datetime.date raises TypeError (pandas 2) or is False (pandas 1)
    inSession,  \* st.session_state holds the two frames
    session,    \* st.session_state.custom_df / repair_df (custom_df_rick / repair_df_rick)
    file,       \* the two CSV files: [exists, rows]
    last,       \* what the last script run did and rendered
    call        \* a call of a pure helper: its arguments and its result

vars == <<variant, natRaises, inSession, session, file, last, call>>

-----------------------------------------------------------------------------
(* Bounds of the model *)

\* the current date, date.today(), as a day number; form dates lie around it
Today == 2
\* script runs (interactions, counting each session's first run) explored
MaxRuns == 3

Yesterday == Today - 1
Tomorrow == Today + 1

-----------------------------------------------------------------------------
(* Configuration: src/app_rick.py 17-47, src/jewelryapp.py 19-42 *)

Variants == {"generic", "rick"}
Cats == {"custom", "repair"}

CUSTOM_STATUSES ==
    << "Consultation", "Design Sketch", "CAD Modeling", "3D Approval", "Casting",
       "Stone Setting", "Final Polish", "Ready for Pickup", "Completed" >>

REPAIR_STATUSES ==
    << "Intake", "Waiting for Parts", "In Progress", "Quality Check",
       "Ready for Pickup", "Completed" >>

CAD_TEAM == << <<"C","A","D","-","1">>, <<"C","A","D","-","2">>, <<"C","A","D","-","3">> >>
BENCH_TEAM ==
    << <<"B","e","n","c","h","-","1">>, <<"B","e","n","c","h","-","2">>,
       <<"B","e","n","c","h","-","3">>, <<"B","e","n","c","h","-","4">> >>
FRONT_DESK == << <<"F","r","o","n","t"," ","D","e","s","k">> >>
ALL_ASSIGNEES == CAD_TEAM \o BENCH_TEAM \o FRONT_DESK

COMPLEXITY == << "S (Simple)", "M (Medium)", "L (Complex)" >>

Statuses(cat) == IF cat = "custom" THEN CUSTOM_STATUSES ELSE REPAIR_STATUSES

Range(s) == { s[i] : i \in 1..Len(s) }

-----------------------------------------------------------------------------
(* Cells *)

\* a missing text value: what read_csv makes of an empty field
NaN == << "<NaN>" >>
\* the column does not exist in this variant / category
NoCol == << "<no column>" >>

\* numeric cells: a float, a missing value, or text that is no number
Num(n) == [k |-> "num", v |-> n]
NumNaN == [k |-> "nan", v |-> 0]
NumText == [k |-> "txt", v |-> 0]

\* the characters of a string of this module are those of U+0000..U+00FF;
\* the ones str.lower() changes are A-Z and the capitals of U+00C0..U+00DE
Upper ==
    << "A", "B", "C", "D", "E", "F", "G", "H", "I", "J", "K", "L", "M",
       "N", "O", "P", "Q", "R", "S", "T", "U", "V", "W", "X", "Y", "Z",
       "À", "Á", "Â", "Ã", "Ä", "Å", "Æ", "Ç", "È", "É",
       "Ê", "Ë", "Ì", "Í", "Î", "Ï", "Ð", "Ñ", "Ò", "Ó",
       "Ô", "Õ", "Ö", "Ø", "Ù", "Ú", "Û", "Ü", "Ý", "Þ" >>
LowerOf ==
    << "a", "b", "c", "d", "e", "f", "g", "h", "i", "j", "k", "l", "m",
       "n", "o", "p", "q", "r", "s", "t", "u", "v", "w", "x", "y", "z",
       "à", "á", "â", "ã", "ä", "å", "æ", "ç", "è", "é",
       "ê", "ë", "ì", "í", "î", "ï", "ð", "ñ", "ò", "ó",
       "ô", "õ", "ö", "ø", "ù", "ú", "û", "ü", "ý", "þ" >>

\* str.lower() on one character
LowerChar(ch) ==
    IF \E i \in 1..Len(Upper) : Upper[i] = ch
    THEN LowerOf[CHOOSE i \in 1..Len(Upper) : Upper[i] = ch]
    ELSE ch

\* str.lower()
lower(s) == [i \in 1..Len(s) |-> LowerChar(s[i])]

\* the characters of U+0000..U+00FF that str.strip() removes and for which
\* str.isspace() holds: blank, tab, newline, carriage return, form feed,
\* U+000B, U+001C..U+001F, U+0085 and U+00A0
Whitespace ==
    { " ", "\t", "\n", "\r", "\f",
      "", "", "", "", "", "", " " }

\* ch.isspace()
IsSpace(ch) == ch \in Whitespace

RECURSIVE lstrip(_)
lstrip(s) == IF s # <<>> /\ IsSpace(Head(s)) THEN lstrip(Tail(s)) ELSE s

RECURSIVE rstrip(_)
rstrip(s) ==
    IF s # <<>> /\ IsSpace(s[Len(s)]) THEN rstrip(SubSeq(s, 1, Len(s) - 1)) ELSE s

\* str.strip()
strip(s) == rstrip(lstrip(s))

\* str(x) of a text cell: str(float("nan")) is "nan"
str(cell) == IF cell = NaN THEN <<"n","a","n">> ELSE cell

-----------------------------------------------------------------------------
(* Dates.  A calendar date is a day number 0..9; its ISO text is the one   *)
(* digit of the day, the only text pd.to_datetime parses to a date here.   *)

Digits == << "0", "1", "2", "3", "4", "5", "6", "7", "8", "9" >>

\* date.isoformat()
isoformat(d) == << Digits[d + 1] >>

\* today_iso / today_str
today_iso == isoformat(Today)

\* pandas' nat_strings: the texts to_datetime reads as NaT
nat_strings ==
    { <<"N","a","T">>, <<"n","a","t">>, <<"N","A","T">>,
      <<"n","a","n">>, <<"N","a","N">>, <<"N","A","N">> }

NoDate == [k |-> "none", d |-> 0]
NaT == [k |-> "nat", d |-> 0]
Date(d) == [k |-> "date", d |-> d]

Raised == [k |-> "raise", d |-> 0]

\* pd.to_datetime(s) of a non-blank string: NaT for a nat string, the date for
\* an ISO text (surrounding blanks allowed), an exception otherwise
to_datetime(s) ==
    IF s \in nat_strings THEN NaT
    ELSE LET t == strip(s)
         IN  IF Len(t) = 1 /\ t[1] \in Range(Digits)
             THEN Date(CHOOSE d \in 0..9 : Digits[d + 1] = t[1])
             ELSE Raised

\* parse_date: pd.to_datetime(s).date() for a non-blank string, None for a
\* blank one and when to_datetime raises; NaT.date() is NaT
parse_date(s) ==
    IF strip(s) = <<>> THEN NoDate
    ELSE LET d == to_datetime(s)
         IN  IF d.k = "raise" THEN NoDate ELSE d

\* a mutation of is_overdue: the Completed test is dropped
is_overdue_ignores_status(due_str, status, today, raises) ==
    LET d == parse_date(due_str)
    IN  IF d.k = "none" THEN "No"
        ELSE IF d.k = "nat" THEN (IF raises THEN "TypeError" ELSE "No")
        ELSE IF d.d < today THEN "Yes" ELSE "No"

\* a mutation of is_overdue: <= for <
is_overdue_includes_today(due_str, status, today, raises) ==
    IF status = "Completed" THEN "No"
    ELSE LET d == parse_date(due_str)
         IN  IF d.k = "none" THEN "No"
             ELSE IF d.k = "nat" THEN (IF raises THEN "TypeError" ELSE "No")
             ELSE IF d.d <= today THEN "Yes" ELSE "No"

\* is_overdue.  bool(NaT) is True, so a NaT reaches d < date.today(): pandas 2
\* raises TypeError there (the result "TypeError"), pandas 1 answers False.
is_overdue(due_str, status, today, raises) ==
    IF status = "Completed" THEN "No"
    ELSE LET d == parse_date(due_str)
         IN  IF d.k = "none" THEN "No"
             ELSE IF d.k = "nat" THEN (IF raises THEN "TypeError" ELSE "No")
             ELSE IF d.d < today THEN "Yes" ELSE "No"

-----------------------------------------------------------------------------
(* The overdue computation on its own: is_overdue is called as             *)
(* is_overdue(str(r.get(<date column>, "")), str(r.get("Status", "")))     *)
(* on the cells of one row.                                                *)

\* the cells a date column can hold
DueCells ==
    { <<>>, <<" ">>, <<"\t">>, NaN, <<"x">>, <<"n","a","n">>, <<"N","A","T">>,
      isoformat(Yesterday), isoformat(Today), isoformat(Tomorrow),
      <<" ">> \o isoformat(Yesterday) }

\* the texts str(r.get("Status", "")) can be: the stages, "nan" for a missing
\* value, a foreign one
StatusCells ==
    Range(CUSTOM_STATUSES) \cup Range(REPAIR_STATUSES) \cup {"nan", "On Hold"}

Days == Yesterday..Tomorrow

NoCall == [fn |-> "none"]

\* the frames, files and run record while only a helper is exercised
IdleFrames == [c \in Cats |-> <<>>]
IdleFiles == [c \in Cats |-> [exists |-> FALSE, rows |-> <<>>]]
IdleLast == [op |-> "none"]

InitOverdue ==
    /\ variant = "rick"
    /\ natRaises \in BOOLEAN
    /\ inSession = FALSE
    /\ session = IdleFrames
    /\ file = IdleFiles
    /\ last = IdleLast
    /\ call \in [fn : {"is_overdue"}, due : DueCells, status : StatusCells,
                 today : Days, res : {"pending"}]

\* one row's pass through  df.apply(lambda r: is_overdue(...), axis=1)
CallIsOverdue ==
    /\ call.fn = "is_overdue"
    /\ call.res = "pending"
    /\ call' = [call EXCEPT !.res =
                    is_overdue(str(call.due), call.status, call.today, natRaises)]
    /\ UNCHANGED <<variant, natRaises, inSession, session, file, last>>

NextOverdue == CallIsOverdue

SpecOverdue == InitOverdue /\ [][NextOverdue]_vars

Returned == call.fn = "is_overdue" /\ call.res # "pending"

\* C3: in the Rick variant a row whose Status is "Completed" is never overdue,
\* whatever its date cell holds, and the computation raises nothing.
C3_CompletedNeverOverdue ==
    (Returned /\ call.status = "Completed") => call.res = "No"

C3_Witness ==
    Returned /\ call.status = "Completed" /\ call.due = isoformat(Yesterday)
             /\ call.today = Today /\ call.res = "No"

\* C4: a row that is not Completed and whose date cell is the ISO text of a
\* day is overdue exactly when that day is strictly before the current date.
C4_PastDateOverdue ==
    \A d \in Days :
        (Returned /\ call.status # "Completed" /\ call.due = isoformat(d))
            => call.res = (IF d < call.today THEN "Yes" ELSE "No")

C4_Witness ==
    /\ Returned /\ call.status = "In Progress"
    /\ call.due = isoformat(Yesterday) /\ call.today = Today /\ call.res = "Yes"

\* the date cells C5 is about: empty, blank, missing, not a date
NoDateCells == { <<>>, <<" ">>, <<"\t">>, NaN, <<"x">>, <<"N","A","T">> }

\* C5: a row whose date cell is empty, blank, missing or no date gets
\* Overdue = "No" for every Status, and no error is raised.
C5_NoDateNotOverdue ==
    (Returned /\ call.due \in NoDateCells) => call.res = "No"

-----------------------------------------------------------------------------
(* Rows and frames *)

\* the value of a column this variant or category does not have
NoAtom == "<no column>"

\* a mutation of clip_lower0: the clamp at zero is dropped
clip_none(x) == x

\* (T - D).clip(lower=0.0)
clip_lower0(x) == IF x < 0 THEN 0 ELSE x

\* compute_remaining
compute_remaining(total, deposit) ==
    LET rem == total - deposit
    IN  IF rem >= 0 THEN rem ELSE 0

\* to_float / safe_float: float(x), 0.0 when it raises; float() of a nan
\* does not raise and is nan
to_float(x) == IF x.k = "txt" THEN Num(0) ELSE x

\* pd.to_numeric(col, errors="coerce").fillna(0.0) on one cell
to_numeric_fillna(x) == IF x.k = "num" THEN x.v ELSE 0

\* a mutation of paid_flag: the two answers are swapped
paid_flag_swapped(rem) == IF rem = 0 THEN "No" ELSE "Yes"

\* "Yes" if rem == 0 else "No"
paid_flag(rem) == IF rem = 0 THEN "Yes" ELSE "No"

\* the texts of the seed rows
T_C_RT_1001 ==
    <<"C","-","R","T","-","1","0","0","1">>
T_R_RT_2001 ==
    <<"R","-","R","T","-","2","0","0","1">>
T_C_1001 ==
    <<"C","-","1","0","0","1">>
T_R_2001 ==
    <<"R","-","2","0","0","1">>
T_EXAMPLE_CLIENT ==
    <<"E","x","a","m","p","l","e"," ","C","l","i","e","n","t">>
T_CUSTOM_RING ==
    <<"C","u","s","t","o","m"," ","e","n","g","a","g","e","m","e","n","t"," ","r","i","n","g">>
T_ENGAGEMENT_RING ==
    <<"E","n","g","a","g","e","m","e","n","t"," ","r","i","n","g">>
T_RING ==
    <<"R","i","n","g">>
T_RESIZING ==
    <<"R","e","s","i","z","i","n","g">>
T_CAD_TEAM ==
    <<"C","A","D"," ","T","e","a","m">>
T_BENCH ==
    <<"B","e","n","c","h">>
T_DEMO_RECORD ==
    <<"D","e","m","o"," ","r","e","c","o","r","d">>

\* the seed rows of load_or_init / load_or_init_csv
SeedRow(v, kind) ==
    IF v = "rick" /\ kind = "custom" THEN
        [ Job_ID |-> T_C_RT_1001, Client |-> T_EXAMPLE_CLIENT,
          Item |-> T_CUSTOM_RING, Repair_Type |-> NoCol,
          Owner |-> CAD_TEAM[1], Complexity |-> "M (Medium)", Status |-> "CAD Modeling",
          Intake_Date |-> today_iso, Due |-> isoformat(Today),
          Total_Price |-> Num(2500), Deposit_Paid |-> Num(500),
          Remaining_Balance |-> Num(2000), Paid |-> "No", Overdue |-> "No",
          Notes |-> T_DEMO_RECORD ]
    ELSE IF v = "rick" THEN
        [ Job_ID |-> T_R_RT_2001, Client |-> T_EXAMPLE_CLIENT,
          Item |-> T_RING, Repair_Type |-> T_RESIZING,
          Owner |-> BENCH_TEAM[1], Complexity |-> "S (Simple)", Status |-> "Intake",
          Intake_Date |-> today_iso, Due |-> <<>>,
          Total_Price |-> Num(150), Deposit_Paid |-> Num(0),
          Remaining_Balance |-> Num(150), Paid |-> "No", Overdue |-> "No",
          Notes |-> T_DEMO_RECORD ]
    ELSE IF kind = "custom" THEN
        [ Job_ID |-> T_C_1001, Client |-> T_EXAMPLE_CLIENT,
          Item |-> T_ENGAGEMENT_RING, Repair_Type |-> NoCol,
          Owner |-> T_CAD_TEAM, Complexity |-> NoAtom, Status |-> "Consultation",
          Intake_Date |-> today_iso, Due |-> <<>>,
          Total_Price |-> Num(1200), Deposit_Paid |-> Num(200),
          Remaining_Balance |-> Num(1000), Paid |-> "No", Overdue |-> NoAtom,
          Notes |-> T_DEMO_RECORD ]
    ELSE
        [ Job_ID |-> T_R_2001, Client |-> T_EXAMPLE_CLIENT,
          Item |-> T_RING, Repair_Type |-> T_RESIZING,
          Owner |-> T_BENCH, Complexity |-> NoAtom, Status |-> "Intake",
          Intake_Date |-> today_iso, Due |-> <<>>,
          Total_Price |-> Num(120), Deposit_Paid |-> Num(0),
          Remaining_Balance |-> Num(120), Paid |-> "No", Overdue |-> NoAtom,
          Notes |-> T_DEMO_RECORD ]

TextColumns == {"Job_ID", "Client", "Item", "Repair_Type", "Owner", "Intake_Date", "Due", "Notes"}
NumColumns == {"Total_Price", "Deposit_Paid", "Remaining_Balance"}

\* pandas' default na_values, as far as the texts of the model go
na_values == { <<>>, <<"n","a","n">>, <<"N","a","N">>, <<"N","A">> }

\* DataFrame.to_csv on one cell: a missing value is written as an empty field
to_csv_cell(col, x) ==
    IF col \in TextColumns THEN (IF x = NaN THEN <<>> ELSE x)
    ELSE x

\* pd.read_csv on one field: an empty field or an NA text is a missing value
read_csv_cell(col, x) ==
    IF col \in TextColumns THEN (IF x \in na_values THEN NaN ELSE x)
    ELSE x

\* df.to_csv(path, index=False): the rows of the file
to_csv(df) ==
    [i \in 1..Len(df) |-> [col \in DOMAIN df[i] |-> to_csv_cell(col, df[i][col])]]

\* pd.read_csv(path)
read_csv(rows) ==
    [i \in 1..Len(rows) |-> [col \in DOMAIN rows[i] |-> read_csv_cell(col, rows[i][col])]]

NoFile == [exists |-> FALSE, rows |-> <<>>]
FileOf(df) == [exists |-> TRUE, rows |-> to_csv(df)]

\* a mutation of load_or_init: an existing file is ignored and seeded over
load_or_init_always_seeds(v, f, kind) ==
    [df |-> << SeedRow(v, kind) >>, file |-> FileOf(<< SeedRow(v, kind) >>)]

\* load_or_init / load_or_init_csv: the frame returned and the file left behind
load_or_init(v, f, kind) ==
    IF f.exists
    THEN [df |-> read_csv(f.rows), file |-> f]
    ELSE [df |-> << SeedRow(v, kind) >>, file |-> FileOf(<< SeedRow(v, kind) >>)]

\* a mutation of save_df: the last row is not written
save_df_drops_last(df) == FileOf(SubSeq(df, 1, Len(df) - 1))

\* save_df / save_csv
save_df(df) == FileOf(df)

-----------------------------------------------------------------------------
(* The recomputation pass *)

\* the pass on one row: the columns the generic variant recomputes
\* (to_numeric/fillna, clip, the Paid lambda)
recompute_row(r) ==
    LET total == to_numeric_fillna(r.Total_Price)
        dep == to_numeric_fillna(r.Deposit_Paid)
        rem == clip_lower0(total - dep)
    IN  [r EXCEPT !.Total_Price = Num(total), !.Deposit_Paid = Num(dep),
                  !.Remaining_Balance = Num(rem), !.Paid = paid_flag(rem)]

\* the Overdue lambda on one row
row_overdue(r) == is_overdue(str(r.Due), r.Status, Today, natRaises)

\* df.apply(<lambda>, axis=1) on a frame without rows calls the lambda once
\* on a row of missing values to see what it returns
probe_overdue == is_overdue(str(NaN), "nan", Today, natRaises)

\* the pass raises (Rick variant) when the Overdue lambda raises on some row;
\* on a frame without rows, when it raises on the probe row: apply then
\* returns a copy of the empty frame, and assigning a frame to the Overdue
\* column raises ValueError
recompute_raises(v, df) ==
    /\ v = "rick"
    /\ IF df = <<>> THEN probe_overdue = "TypeError"
       ELSE \E i \in 1..Len(df) : row_overdue(df[i]) = "TypeError"

\* the recomputed frame (when nothing raises)
recompute(v, df) ==
    [i \in 1..Len(df) |->
        IF v = "rick"
        THEN [recompute_row(df[i]) EXCEPT !.Overdue = row_overdue(df[i])]
        ELSE recompute_row(df[i])]

-----------------------------------------------------------------------------
(* The add forms *)

\* a mutation of form_valid: only the Job ID is required
form_valid_job_only(form) == strip(form.job) # <<>>

\* not (not job_id.strip() or not client.strip())
form_valid(form) == strip(form.job) # <<>> /\ strip(form.client) # <<>>

\* new_row of the add handlers
new_row(v, kind, form) ==
    LET total == to_float(form.total)
        dep == to_float(form.dep)
        \* nan - x is nan and nan >= 0 is False: compute_remaining gives 0.0
        rem == IF total.k = "num" /\ dep.k = "num"
               THEN compute_remaining(total.v, dep.v) ELSE 0
        due_str == IF form.due.k = "date" THEN isoformat(form.due.d) ELSE <<>>
    IN  [ Job_ID |-> strip(form.job), Client |-> strip(form.client),
          Item |-> strip(form.item),
          Repair_Type |-> IF kind = "repair" THEN strip(form.rtype) ELSE NoCol,
          Owner |-> IF v = "rick" THEN form.owner ELSE strip(form.owner),
          Complexity |-> IF v = "rick" THEN form.cx ELSE NoAtom,
          Status |-> form.status,
          Intake_Date |-> isoformat(form.intake), Due |-> due_str,
          Total_Price |-> total, Deposit_Paid |-> dep,
          Remaining_Balance |-> Num(rem), Paid |-> paid_flag(rem),
          Overdue |-> IF v = "rick"
                      THEN is_overdue(due_str, form.status, Today, natRaises)
                      ELSE NoAtom,
          Notes |-> strip(form.notes) ]

-----------------------------------------------------------------------------
(* The filter of the display pass *)

\* re.compile(q) raises re.error.  The queries are made of letters, digits,
\* blanks, "-", "." and "(": of these an unclosed "(" is the error.
re_error(q) == \E i \in 1..Len(q) : q[i] = "("

\* the pattern q, literal characters and "." for any character but the
\* newline (no re.DOTALL), matches s
\* from position k on
match_at(q, s, k) ==
    /\ k + Len(q) - 1 <= Len(s)
    /\ \A j \in 1..Len(q) :
            IF q[j] = "." THEN s[k + j - 1] # "\n" ELSE q[j] = s[k + j - 1]

\* Series.str.contains(q) on one cell: regex=True is the default, so it is
\* re.search(q, s)
contains(s, q) == \E k \in 1..(Len(s) + 1) : match_at(q, s, k)

\* the columns the search looks into
SearchColumns(kind) ==
    IF kind = "repair" THEN << "Job_ID", "Client", "Item", "Repair_Type" >>
    ELSE << "Job_ID", "Client", "Item" >>

\* the search mask on one row: the "|" of
\* df_f[col].astype(str).str.lower().str.contains(q)
search_mask(r, kind, q) ==
    \E c \in Range(SearchColumns(kind)) : contains(lower(str(r[c])), q)

\* the selectors on one row: Status.isin(f_status), then in the Rick variant
\* the assignee's isin and the Overdue selector, in the generic variant the
\* Paid selector
row_selected(v, r, f) ==
    /\ r.Status \in Range(f.f_status)
    /\ IF v = "rick"
       THEN /\ r.Owner \in Range(f.f_owner)
            /\ (f.f_sel = "Only overdue" => r.Overdue = "Yes")
            /\ (f.f_sel = "Not overdue" => r.Overdue = "No")
       ELSE /\ (f.f_sel = "Paid" => r.Paid = "Yes")
            /\ (f.f_sel = "Unpaid" => r.Paid = "No")

\* df[mask]: the index labels at which the mask is true, in frame order
RECURSIVE masked(_, _)
masked(mask, n) ==
    IF n = 0 THEN <<>>
    ELSE IF mask[n] THEN Append(masked(mask, n - 1), n)
    ELSE masked(mask, n - 1)

\* a mutation of apply_filter: the first row that passes is dropped
apply_filter_drops_first(v, kind, df, f) ==
    LET sel == [i \in 1..Len(df) |-> row_selected(v, df[i], f)]
        kept == masked(sel, Len(df))
    IN  [raised |-> FALSE, idx |-> IF kept = <<>> THEN kept ELSE Tail(kept)]

\* "apply filters" on the recomputed copy df: the index of df_f, or the
\* exception of str.contains
apply_filter(v, kind, df, f) ==
    LET sel == [i \in 1..Len(df) |-> row_selected(v, df[i], f)]
        q == lower(strip(f.f_search))
    IN  IF strip(f.f_search) = <<>>
        THEN [raised |-> FALSE, idx |-> masked(sel, Len(df))]
        ELSE IF re_error(q) THEN [raised |-> TRUE, idx |-> <<>>]
        ELSE [raised |-> FALSE,
              idx |-> masked([i \in 1..Len(df) |-> sel[i] /\ search_mask(df[i], kind, q)],
                             Len(df))]

-----------------------------------------------------------------------------
(* The summary metrics and the stage histogram *)

\* Series.sum() of a numeric column
RECURSIVE series_sum(_)
series_sum(col) == IF col = <<>> THEN 0 ELSE Head(col) + series_sum(Tail(col))

\* int(mask.sum()): the number of rows at which a boolean mask is true
mask_sum(mask) == Cardinality({ j \in DOMAIN mask : mask[j] })

\* c1.metric .. c4.metric over the filtered frame df_f: open jobs; overdue
\* jobs (Rick) or completed jobs (generic); the sums of Total_Price and of
\* Remaining_Balance, as handed to money_fmt
summary_metrics(v, df_f) ==
    LET rows == 1..Len(df_f)
    IN  [ c1 |-> mask_sum([j \in rows |-> df_f[j].Status # "Completed"]),
          c2 |-> IF v = "rick"
                 THEN mask_sum([j \in rows |-> df_f[j].Overdue = "Yes"])
                 ELSE mask_sum([j \in rows |-> df_f[j].Status = "Completed"]),
          c3 |-> series_sum([j \in 1..Len(df_f) |-> df_f[j].Total_Price.v]),
          c4 |-> series_sum([j \in 1..Len(df_f) |-> df_f[j].Remaining_Balance.v]) ]

\* Series.value_counts(): the number of rows per value that occurs
value_counts(col) ==
    [x \in Range(col) |-> Cardinality({ i \in 1..Len(col) : col[i] = x })]

\* .reindex(stages, fill_value=0): one count per stage of the list, in list
\* order, 0 for a stage that does not occur; other values are left out
reindex(counts, stages) ==
    [k \in 1..Len(stages) |->
        IF stages[k] \in DOMAIN counts THEN counts[stages[k]] ELSE 0]

\* stage_counts = df["Status"].value_counts().reindex(STATUSES, fill_value=0)
stage_counts(df, kind) ==
    reindex(value_counts([i \in 1..Len(df) |-> df[i].Status]), Statuses(kind))

\* the chart under a tab's editor is the stage histogram ("Pipeline view",
\* "Stage view"), except on the repair tab of the Rick variant, which draws
\* "Repair load by bench"
has_stage_chart(v, kind) == ~(v = "rick" /\ kind = "repair")

\* load = load[load["Status"] != "Completed"]
bench_rows(df) ==
    LET idx == masked([i \in 1..Len(df) |-> df[i].Status # "Completed"], Len(df))
    IN  [j \in 1..Len(idx) |-> df[idx[j]]]

\* counts = load["Assigned_To"].value_counts().reindex(BENCH_TEAM, fill_value=0)
bench_load(df) ==
    LET load == bench_rows(df)
    IN  reindex(value_counts([i \in 1..Len(load) |-> load[i].Owner]), BENCH_TEAM)

\* the counts of the chart a tab draws from its stored frame
chart_counts(v, df, kind) ==
    IF has_stage_chart(v, kind) THEN stage_counts(df, kind) ELSE bench_load(df)

-----------------------------------------------------------------------------
(* One script run.  m is the run's view of the store: the frames s, the    *)
(* files f, the place an exception stopped the script (at), the outcome of *)
(* the add handler (res), the row it built, and which categories' edit     *)
(* handlers ran to their save (done).  Of the display pass it keeps, per    *)
(* category, whether it was reached (viewed), the number of rows of the    *)
(* copy it recomputed (listed) and the index of the filtered frame (shown); *)
(* of the chart under the editor whether it was reached (staged), the      *)
(* number of rows of the frame it counted (counted) and its counts (stage). *)

NoRow == [Job_ID |-> NaN]

At(kind, point) == <<kind, point>>
Through == <<"none", "none">>

\* the statements that can stop the script, in script order
Points ==
    << At("custom", "add"), At("custom", "view"), At("custom", "edit"),
       At("repair", "add"), At("repair", "view"), At("repair", "edit"), Through >>

Pos(at) == CHOOSE i \in 1..Len(Points) : Points[i] = at

\* "if <key> not in st.session_state": load both frames
load_session(v, open, s, f) ==
    IF open THEN [s |-> s, f |-> f]
    ELSE [s |-> [c \in Cats |-> load_or_init(v, f[c], c).df],
          f |-> [c \in Cats |-> load_or_init(v, f[c], c).file]]

\* the widgets' default values: default=CUSTOM_STATUSES, default=ALL_ASSIGNEES
\* (BENCH_TEAM on the repair tab), index=0, an empty text input
DefaultWidgets(v, kind) ==
    [ f_status |-> Statuses(kind),
      f_owner |-> IF v # "rick" THEN <<>>
                  ELSE IF kind = "custom" THEN ALL_ASSIGNEES
                  ELSE BENCH_TEAM,
      f_sel |-> "All", f_search |-> <<>> ]

\* the state of a run at its first statement; w holds the values of the
\* filter widgets of both tabs during the run
start_run(v, open, s, f) ==
    LET l == load_session(v, open, s, f)
    IN  [s |-> l.s, f |-> l.f, at |-> Through, res |-> "none", row |-> NoRow,
         done |-> [c \in Cats |-> FALSE], viewed |-> [c \in Cats |-> FALSE],
         listed |-> [c \in Cats |-> 0], shown |-> [c \in Cats |-> <<>>],
         staged |-> [c \in Cats |-> FALSE], counted |-> [c \in Cats |-> 0],
         stage |-> [c \in Cats |-> <<>>],
         w |-> [c \in Cats |-> DefaultWidgets(v, c)]]

\* the add handler with one frame shared by the two tabs: the new row is
\* appended to the other category's frame as well
add_handler_shared_frame(v, m, kind, ev) ==
    IF m.at # Through \/ ev.op # "add" \/ ev.cat # kind THEN m
    ELSE IF ~form_valid(ev.form) THEN [m EXCEPT !.res = "rejected"]
    ELSE LET row == new_row(v, kind, ev.form)
             df == Append(m.s[kind], row)
         IN  IF recompute_raises(v, df)
             THEN [m EXCEPT !.at = At(kind, "add"), !.res = "raised", !.row = row]
             ELSE LET df2 == IF v = "rick" THEN recompute(v, df) ELSE df
                  IN  [m EXCEPT !.s = [c \in Cats |-> IF c = kind THEN df2
                                                      ELSE Append(m.s[c], row)],
                                !.f[kind] = save_df(df2),
                                !.res = "added", !.row = row]

\* "if add:" / "if submitted:" of one tab
add_handler(v, m, kind, ev) ==
    IF m.at # Through \/ ev.op # "add" \/ ev.cat # kind THEN m
    ELSE IF ~form_valid(ev.form) THEN [m EXCEPT !.res = "rejected"]
    ELSE LET row == new_row(v, kind, ev.form)
             df == Append(m.s[kind], row)
         IN  IF recompute_raises(v, df)
             THEN [m EXCEPT !.at = At(kind, "add"), !.res = "raised", !.row = row]
             ELSE LET df2 == IF v = "rick" THEN recompute(v, df) ELSE df
                  IN  [m EXCEPT !.s[kind] = df2, !.f[kind] = save_df(df2),
                                !.res = "added", !.row = row]

\* "with right:" up to the metrics: the copy recomputed for display and
\* filtered by the widgets
\* the display pass keeping the filtered rows as the stored frame
view_pass_stores_filtered(v, m, kind) ==
    IF m.at # Through THEN m
    ELSE IF recompute_raises(v, m.s[kind]) THEN [m EXCEPT !.at = At(kind, "view")]
    ELSE LET df == recompute(v, m.s[kind])
             df_f == apply_filter(v, kind, df, m.w[kind])
         IN  IF df_f.raised THEN [m EXCEPT !.at = At(kind, "view")]
             ELSE [m EXCEPT !.viewed[kind] = TRUE, !.listed[kind] = Len(df),
                            !.shown[kind] = df_f.idx,
                            !.s[kind] = [j \in 1..Len(df_f.idx) |-> df[df_f.idx[j]]]]

view_pass(v, m, kind) ==
    IF m.at # Through THEN m
    ELSE IF recompute_raises(v, m.s[kind]) THEN [m EXCEPT !.at = At(kind, "view")]
    ELSE LET df == recompute(v, m.s[kind])
             df_f == apply_filter(v, kind, df, m.w[kind])
         IN  IF df_f.raised THEN [m EXCEPT !.at = At(kind, "view")]
             ELSE [m EXCEPT !.viewed[kind] = TRUE, !.listed[kind] = Len(df),
                            !.shown[kind] = df_f.idx]

\* a mutation of data_editor: the edited row is deleted from the frame
data_editor_deletes_row(df, kind, ev) ==
    IF ev.op = "edit" /\ ev.cat = kind /\ ev.i \in 1..Len(df)
    THEN SubSeq(df, 1, ev.i - 1) \o SubSeq(df, ev.i + 1, Len(df))
    ELSE df

\* st.data_editor's return value: the frame shown, with the user's cell edit
data_editor(df, kind, ev) ==
    IF ev.op = "edit" /\ ev.cat = kind /\ ev.i \in 1..Len(df)
    THEN [df EXCEPT ![ev.i] =
            IF ev.col = "Status" THEN [@ EXCEPT !.Status = ev.atom]
            ELSE IF ev.col = "Due" THEN [@ EXCEPT !.Due = ev.text]
            ELSE IF ev.col = "Total_Price" THEN [@ EXCEPT !.Total_Price = ev.num]
            ELSE [@ EXCEPT !.Deposit_Paid = ev.num]]
    ELSE df

\* a mutation of edit_handler: the pass leaves the Overdue column as the
\* editor returned it
edit_handler_keeps_overdue(v, m, kind, ev) ==
    IF m.at # Through THEN m
    ELSE LET shown == IF v = "rick" THEN recompute(v, m.s[kind]) ELSE m.s[kind]
             edited == data_editor(shown, kind, ev)
             df2 == [i \in 1..Len(edited) |-> recompute_row(edited[i])]
         IN  IF recompute_raises(v, edited) THEN [m EXCEPT !.at = At(kind, "edit")]
             ELSE [m EXCEPT !.s[kind] = df2, !.f[kind] = save_df(df2),
                            !.done[kind] = TRUE]

\* "if edited is not None:" of one tab: recompute, replace, save
edit_handler(v, m, kind, ev) ==
    IF m.at # Through THEN m
    ELSE LET shown == IF v = "rick" THEN recompute(v, m.s[kind]) ELSE m.s[kind]
             edited == data_editor(shown, kind, ev)
         IN  IF recompute_raises(v, edited) THEN [m EXCEPT !.at = At(kind, "edit")]
             ELSE [m EXCEPT !.s[kind] = recompute(v, edited),
                            !.f[kind] = save_df(recompute(v, edited)),
                            !.done[kind] = TRUE]

\* "Pipeline view" / "Stage view": the chart of the stored frame's stages;
\* "Repair load by bench": the chart of the open repairs' benches
stage_view(v, m, kind) ==
    IF m.at # Through THEN m
    ELSE [m EXCEPT !.staged[kind] = TRUE,
                   !.counted[kind] = IF has_stage_chart(v, kind) THEN Len(m.s[kind])
                                     ELSE Len(bench_rows(m.s[kind])),
                   !.stage[kind] = chart_counts(v, m.s[kind], kind)]

\* a mutation of reset_handler: the file is not removed before the reload
reset_handler_keeps_file(v, m, kind, ev) ==
    IF m.at # Through \/ ev.op # "reset" \/ ev.cat # kind THEN m
    ELSE [m EXCEPT !.s[kind] = load_or_init(v, m.f[kind], kind).df,
                   !.f[kind] = load_or_init(v, m.f[kind], kind).file]

\* the reset button of one tab
reset_handler(v, m, kind, ev) ==
    IF m.at # Through \/ ev.op # "reset" \/ ev.cat # kind THEN m
    ELSE [m EXCEPT !.s[kind] = load_or_init(v, NoFile, kind).df,
                   !.f[kind] = load_or_init(v, NoFile, kind).file]

\* the statements of the script after the load, in script order:
\* "with tab1:" then "with tab2:", each an add handler, the display pass,
\* the editor with its edit handler, the stage chart, and the reset button
Script ==
    << <<"add", "custom">>, <<"view", "custom">>, <<"edit", "custom">>,
       <<"stage", "custom">>, <<"reset", "custom">>,
       <<"add", "repair">>, <<"view", "repair">>, <<"edit", "repair">>,
       <<"stage", "repair">>, <<"reset", "repair">> >>

\* one statement of the script
statement(v, m, st, ev) ==
    IF st[1] = "add" THEN add_handler(v, m, st[2], ev)
    ELSE IF st[1] = "view" THEN view_pass(v, m, st[2])
    ELSE IF st[1] = "edit" THEN edit_handler(v, m, st[2], ev)
    ELSE IF st[1] = "stage" THEN stage_view(v, m, st[2])
    ELSE reset_handler(v, m, st[2], ev)

\* the script from its k-th statement on; a statement's result is bound (as
\* the one element of a set) before the next statement runs on it
RECURSIVE run_from(_, _, _, _)
run_from(v, m, k, ev) ==
    IF k > Len(Script) THEN m
    ELSE CHOOSE r \in { run_from(v, x, k + 1, ev) :
                            x \in { statement(v, m, Script[k], ev) } } : TRUE

\* the whole script
\* w: the values the filter widgets hold during the run
script_run(v, open, s, f, w, ev) ==
    run_from(v, [start_run(v, open, s, f) EXCEPT !.w = w], 1, ev)

-----------------------------------------------------------------------------
(* The interactions.  Every one re-runs the script; which widgets the user *)
(* can touch is what the previous run got to render.                       *)

\* the add forms' inputs
JobInputs == { <<>>, <<" ","\t">>, <<" ","A","-","1"," ">> }
ClientInputs == { <<>>, <<"\n">>, <<"J","a","n","e">> }
ItemInput == <<"r","i","n","g"," ">>
StatusInputs(kind) == { Statuses(kind)[1], "Completed" }
DueInputs == { NoDate, Date(Yesterday) }
DepositInputs == { Num(100), Num(150) }
OwnerInput(v, kind) ==
    IF v = "rick" THEN (IF kind = "custom" THEN ALL_ASSIGNEES[1] ELSE BENCH_TEAM[1])
    ELSE <<" ","B","e","n","c","h">>

\* forms that differ in what is stored, and forms that differ in the two
\* required fields
Forms(v, kind) ==
    [ job : { <<"\t","A","-","1"," ">> }, client : { <<"J","a","n","e">> },
      item : {ItemInput}, rtype : { <<"s","i","z","e">> }, owner : {OwnerInput(v, kind)},
      cx : {COMPLEXITY[1]}, status : StatusInputs(kind), intake : {Today},
      due : DueInputs, total : {Num(100)}, dep : DepositInputs, notes : { <<>> } ]
    \cup
    [ job : JobInputs, client : ClientInputs,
      item : {ItemInput}, rtype : { <<"s","i","z","e">> }, owner : {OwnerInput(v, kind)},
      cx : {COMPLEXITY[1]}, status : {Statuses(kind)[1]}, intake : {Today},
      due : {NoDate}, total : {Num(100)}, dep : {Num(0)}, notes : { <<>> } ]

NoForm == [job |-> <<>>]

Ev(op, kind, form, i, col, atom, text, num) ==
    [op |-> op, cat |-> kind, form |-> form, i |-> i, col |-> col,
     atom |-> atom, text |-> text, num |-> num]

\* a CSV file of an older or other program: a Status that is not a stage of
\* the list (load_or_init takes the file as it is)
HistoricRows(v, kind) ==
    << [ SeedRow(v, kind) EXCEPT
            !.Job_ID = <<"H","-","3">>, !.Status = "On Hold",
            !.Due = isoformat(Tomorrow) ] >>

\* a CSV file found at start-up that no run of this program wrote: stale
\* derived columns, a negative price, a deposit that is no number
LegacyRows(v, kind) ==
    << [ SeedRow(v, kind) EXCEPT
            !.Job_ID = <<"L","-","7">>, !.Client = <<"O","l","d">>,
            !.Item = <<"C","h","a","i","n">>, !.Due = isoformat(Yesterday),
            !.Total_Price = Num(-50), !.Deposit_Paid = NumText,
            !.Remaining_Balance = Num(999), !.Paid = "Yes" ] >>

Init ==
    /\ variant \in Variants
    /\ natRaises \in (IF variant = "rick" THEN BOOLEAN ELSE {FALSE})
    /\ inSession = FALSE
    /\ session = IdleFrames
    /\ file \in [Cats -> {NoFile}] \cup
                { [c \in Cats |-> IF c \in L THEN [exists |-> TRUE, rows |-> LegacyRows(variant, c)]
                                              ELSE NoFile] : L \in (SUBSET Cats) \ {{}} }
                \cup { [c \in Cats |-> [exists |-> TRUE, rows |-> HistoricRows(variant, c)]] }
    /\ last = [n |-> 0, ev |-> Ev("none", "none", NoForm, 0, "", "", <<>>, Num(0)),
               res |-> "none", row |-> NoRow, at |-> Through,
               done |-> [c \in Cats |-> FALSE], before |-> [c \in Cats |-> 0],
               viewed |-> [c \in Cats |-> FALSE], listed |-> [c \in Cats |-> 0],
               shown |-> [c \in Cats |-> <<>>],
               staged |-> [c \in Cats |-> FALSE], counted |-> [c \in Cats |-> 0],
               stage |-> [c \in Cats |-> <<>>],
               w |-> [c \in Cats |-> DefaultWidgets(variant, c)]]
    /\ call = NoCall

\* one script run on the event ev with the filter widgets holding w
Run(open, ev, w) ==
    /\ last.n < MaxRuns
    /\ \E m \in { script_run(variant, open, session, file, w, ev) } :
        /\ inSession' = TRUE
        /\ session' = m.s
        /\ file' = m.f
        /\ last' = [n |-> last.n + 1, ev |-> ev, res |-> m.res, row |-> m.row,
                    at |-> m.at, done |-> m.done,
                    before |-> [c \in Cats |-> Len(session[c])],
                    viewed |-> m.viewed, listed |-> m.listed, shown |-> m.shown,
                    staged |-> m.staged, counted |-> m.counted, stage |-> m.stage,
                    w |-> w]
        /\ UNCHANGED <<variant, natRaises, call>>

\* which widgets the last run rendered
FormRendered(kind) == inSession /\ Pos(last.at) >= Pos(At(kind, "add"))
FilterRendered(kind) == inSession /\ Pos(last.at) >= Pos(At(kind, "view"))
EditorRendered(kind) == inSession /\ Pos(last.at) >= Pos(At(kind, "edit"))
ResetRendered(kind) == inSession /\ Pos(last.at) > Pos(At(kind, "edit"))

\* a browser session starts (the page is opened or reloaded): session_state
\* is empty, the first run loads both frames and the filter widgets hold
\* their defaults; within a session the widgets keep their values
OpenSession ==
    Run(FALSE, Ev("open", "none", NoForm, 0, "", "", <<>>, Num(0)),
        [c \in Cats |-> DefaultWidgets(variant, c)])

\* the add form of a tab is submitted
SubmitAdd ==
    \E kind \in Cats : \E form \in Forms(variant, kind) :
        /\ FormRendered(kind)
        /\ Run(TRUE, Ev("add", kind, form, 0, "", "", <<>>, Num(0)), last.w)

\* a cell of a tab's editable table is changed
EditCell ==
    \E kind \in Cats : \E i \in 1..Len(session[kind]) :
        /\ EditorRendered(kind)
        /\ \/ \E st \in StatusInputs(kind) :
                Run(TRUE, Ev("edit", kind, NoForm, i, "Status", st, <<>>, Num(0)), last.w)
           \/ \E d \in { <<>>, isoformat(Yesterday) } :
                Run(TRUE, Ev("edit", kind, NoForm, i, "Due", "", d, Num(0)), last.w)
           \/ Run(TRUE, Ev("edit", kind, NoForm, i, "Deposit_Paid", "", <<>>, Num(150)), last.w)
           \/ Run(TRUE, Ev("edit", kind, NoForm, i, "Total_Price", "", <<>>, Num(100)), last.w)

\* a tab's reset button is clicked
ClickReset ==
    \E kind \in Cats :
        /\ ResetRendered(kind)
        /\ Run(TRUE, Ev("reset", kind, NoForm, 0, "", "", <<>>, Num(0)), last.w)

\* the values a filter widget of a tab is changed to: one status, the
\* selector's second option, a search text, a search text that is no regular
\* expression, and back to the defaults
WidgetChanges(v, kind) ==
    { [DefaultWidgets(v, kind) EXCEPT !.f_status = <<"Completed">>],
      [DefaultWidgets(v, kind) EXCEPT !.f_sel = IF v = "rick" THEN "Only overdue" ELSE "Paid"],
      [DefaultWidgets(v, kind) EXCEPT !.f_search = <<" ","R","i","n","g">>],
      [DefaultWidgets(v, kind) EXCEPT !.f_search = <<"(">>],
      DefaultWidgets(v, kind) }

\* a filter widget of a tab is changed
ChangeFilter ==
    \E kind \in Cats : \E f \in WidgetChanges(variant, kind) :
        /\ FilterRendered(kind)
        /\ f # last.w[kind]
        /\ Run(TRUE, Ev("filter", kind, NoForm, 0, "", "", <<>>, Num(0)),
               [last.w EXCEPT ![kind] = f])

Next == OpenSession \/ SubmitAdd \/ EditCell \/ ClickReset \/ ChangeFilter

Spec == Init /\ [][Next]_vars

-----------------------------------------------------------------------------
(* Claims about the store *)

Max0(x) == IF x > 0 THEN x ELSE 0

\* every character of the text is whitespace (the empty text included)
Blank(t) == \A i \in 1..Len(t) : t[i] \in Whitespace

\* the text without its leading and trailing whitespace
Trimmed(t) ==
    IF Blank(t) THEN <<>>
    ELSE LET a == CHOOSE i \in 1..Len(t) :
                    t[i] \notin Whitespace /\ \A j \in 1..(i - 1) : t[j] \in Whitespace
             b == CHOOSE i \in 1..Len(t) :
                    t[i] \notin Whitespace /\ \A j \in (i + 1)..Len(t) : t[j] \in Whitespace
         IN  SubSeq(t, a, b)

BalanceOk(r) ==
    /\ r.Total_Price.k = "num" /\ r.Deposit_Paid.k = "num"
    /\ r.Remaining_Balance = Num(Max0(r.Total_Price.v - r.Deposit_Paid.v))

\* the rows in memory and the rows of the file of a category
StoredRows(c) == Range(session[c]) \cup Range(file[c].rows)

\* C1: once a run has carried a category's add or edit through to its save,
\* every row of that category, in memory and in the file, has
\* Remaining_Balance = max(0, Total_Price - Deposit_Paid).
C1_RemainingBalance ==
    \A c \in Cats : last.done[c] => \A r \in StoredRows(c) : BalanceOk(r)

C1_Witness ==
    /\ last.ev.op = "add" /\ last.res = "added" /\ last.done[last.ev.cat]
    /\ \E r \in StoredRows(last.ev.cat) :
            /\ r.Deposit_Paid.v > r.Total_Price.v /\ r.Total_Price.v > 0
            /\ r.Remaining_Balance = Num(0)

PaidOk(r) ==
    /\ r.Paid = (IF r.Remaining_Balance = Num(0) THEN "Yes" ELSE "No")
    /\ (r.Deposit_Paid.v >= r.Total_Price.v => r.Paid = "Yes")

\* C2: the row an add handler builds, and every row of a category whose
\* recomputation pass ran, has Paid = "Yes" exactly when Remaining_Balance is
\* 0; a deposit at or above the price gives Paid = "Yes".
C2_PaidFlag ==
    /\ last.res \in {"added", "raised"} => PaidOk(last.row)
    /\ \A c \in Cats : last.done[c] => \A r \in StoredRows(c) : PaidOk(r)

C2_Witness ==
    /\ last.res = "added" /\ last.done[last.ev.cat]
    /\ last.row.Deposit_Paid.v >= last.row.Total_Price.v /\ last.row.Paid = "Yes"
    /\ \E r \in StoredRows(last.ev.cat) : r.Paid = "No"

\* C6: a submission whose Job ID or Client is blank is rejected, and the
\* frame and the file of its category are after the run what they were
\* before it.
C6_RejectedAddChangesNothing ==
    [][ (last'.ev.op = "add" /\ (Blank(last'.ev.form.job) \/ Blank(last'.ev.form.client)))
            => /\ last'.res = "rejected"
               /\ session'[last'.ev.cat] = session[last'.ev.cat]
               /\ file'[last'.ev.cat] = file[last'.ev.cat] ]_vars

C6_Witness ==
    /\ last.ev.op = "add" /\ last.res = "rejected"
    /\ ~Blank(last.ev.form.job) /\ last.ev.form.client = <<"\n">>
    /\ Len(session[last.ev.cat]) >= 1 /\ last.at = Through

\* the row a valid submission is to leave at the end of the frame
Admitted(r, form) ==
    /\ r.Job_ID = Trimmed(form.job) /\ r.Client = Trimmed(form.client)
    /\ r.Item = Trimmed(form.item) /\ r.Status = form.status
    /\ r.Total_Price = form.total /\ r.Deposit_Paid = form.dep
    /\ r.Remaining_Balance = Num(Max0(form.total.v - form.dep.v))
    /\ r.Paid = (IF form.dep.v >= form.total.v THEN "Yes" ELSE "No")

\* C7: a submission with non-blank Job ID and Client is always admitted: the
\* frame afterwards is the frame before with one row appended that carries
\* the trimmed inputs and the derived fields, whether or not the Job ID is
\* already in use.
C7_ValidAddAppends ==
    [][ (last'.ev.op = "add" /\ ~Blank(last'.ev.form.job) /\ ~Blank(last'.ev.form.client))
            => LET c == last'.ev.cat
               IN  /\ Len(session'[c]) = Len(session[c]) + 1
                   /\ SubSeq(session'[c], 1, Len(session[c])) = session[c]
                   /\ Admitted(session'[c][Len(session'[c])], last'.ev.form)
                   /\ file'[c].rows = to_csv(session'[c]) ]_vars

\* C8: a first run that finds no file for a category leaves exactly the seed
\* row in memory and in a file that now exists; one that finds a file takes
\* over its rows and seeds nothing.
C8_LoadOrSeed ==
    [][ last'.ev.op = "open" =>
            \A c \in Cats :
                IF file[c].exists
                THEN /\ Len(session'[c]) = Len(file[c].rows)
                     /\ \A i \in 1..Len(file[c].rows) :
                            /\ session'[c][i].Job_ID = file[c].rows[i].Job_ID
                            /\ session'[c][i].Client = file[c].rows[i].Client
                            /\ session'[c][i].Status = file[c].rows[i].Status
                     /\ Len(file'[c].rows) = Len(file[c].rows)
                ELSE /\ session'[c] = << SeedRow(variant, c) >>
                     /\ file'[c].exists
                     /\ read_csv(file'[c].rows) = read_csv(to_csv(<< SeedRow(variant, c) >>)) ]_vars

C8_Witness ==
    /\ last.ev.op = "open" /\ last.n = 1
    /\ session["custom"] = << SeedRow(variant, "custom") >> /\ file["custom"].exists
    /\ session["repair"][1].Job_ID = <<"L","-","7">>

\* C9: after a reset of a category its frame and its file hold the seed row
\* and nothing else, whatever was stored before.
C9_ResetReseeds ==
    last.ev.op = "reset" =>
        /\ session[last.ev.cat] = << SeedRow(variant, last.ev.cat) >>
        /\ file[last.ev.cat] = [exists |-> TRUE, rows |-> to_csv(<< SeedRow(variant, last.ev.cat) >>)]

C9_Witness ==
    /\ last.ev.op = "reset" /\ last.before[last.ev.cat] = 2
    /\ session[last.ev.cat] = << SeedRow(variant, last.ev.cat) >>

-----------------------------------------------------------------------------
(* The filter on its own.  Spec runs the script with the sidebar widgets   *)
(* at their defaults (every status, every assignee, "All", an empty        *)
(* search); SpecFilter exercises the filter on the widgets' other values.  *)

\* rows of a frame the filter is exercised on
MaxRows == 2

\* the rows the frames are made of: the seed row, the row of an older file
\* (overdue, paid), and a completed job with a missing Client
FilterRows(v, kind) ==
    { SeedRow(v, kind), LegacyRows(v, kind)[1],
      [ SeedRow(v, kind) EXCEPT
            !.Job_ID = <<"B","-","2">>, !.Client = NaN,
            !.Item = <<"B","r","a","c","e","l","e","t">>, !.Status = "Completed",
            !.Owner = IF v = "rick" THEN BENCH_TEAM[2] ELSE T_BENCH ] }

\* the frames: of up to MaxRows rows; the frame without rows is what
\* read_csv makes of a file that holds only the header line
Frames(v, kind) == UNION { [1..n -> FilterRows(v, kind)] : n \in 0..MaxRows }

\* the values of the widgets
StatusFilters(kind) == { Statuses(kind), <<"Completed">>, <<>> }
OwnerFilters(v, kind) ==
    IF v # "rick" THEN { <<>> }
    ELSE IF kind = "custom" THEN { ALL_ASSIGNEES, <<CAD_TEAM[1]>> }
    ELSE { BENCH_TEAM, <<BENCH_TEAM[1]>> }
Selectors(v) ==
    IF v = "rick" THEN {"All", "Only overdue", "Not overdue"}
    ELSE {"All", "Paid", "Unpaid"}
SearchInputs ==
    { <<>>, <<"\t">>, <<" ","R","i","n","g">>, <<"n","a","n">>, <<".">>, <<"(">> }

FilterInputs(v, kind) ==
    [ f_status : StatusFilters(kind), f_owner : OwnerFilters(v, kind),
      f_sel : Selectors(v), f_search : SearchInputs ]

\* df_f as a frame of its own: the rows at the index labels idx
take(df, idx) == [j \in 1..Len(idx) |-> df[idx[j]]]

\* the metrics before the display pass computed them
NoMetrics == [c1 |-> 0, c2 |-> 0, c3 |-> 0, c4 |-> 0]

\* the filter has not been applied to its own result
NotAgain == [done |-> FALSE, raised |-> FALSE, idx |-> <<>>]

InitFilter ==
    /\ variant \in Variants
    /\ natRaises \in (IF variant = "rick" THEN BOOLEAN ELSE {FALSE})
    /\ inSession = FALSE
    /\ session = IdleFrames
    /\ file = IdleFiles
    /\ last = IdleLast
    /\ \E kind \in Cats :
          call \in [ fn : {"filter"}, kind : {kind}, df : Frames(variant, kind),
                     f : FilterInputs(variant, kind), done : {FALSE},
                     view : { <<>> }, raised : {FALSE}, idx : { <<>> },
                     again : { NotAgain }, metrics : { NoMetrics },
                     stage : { <<>> } ]

\* the display pass of one tab: the copy is recomputed, then filtered; the
\* metrics are computed over the filtered frame, the stage chart (after the
\* untouched editor's frame was recomputed and stored) over the stored frame
ApplyFilter ==
    /\ call.fn = "filter"
    /\ ~call.done
    /\ LET view == recompute(variant, call.df)
           out == apply_filter(variant, call.kind, view, call.f)
           raised == recompute_raises(variant, call.df) \/ out.raised
       IN  call' = [call EXCEPT !.done = TRUE, !.view = view,
                                !.raised = raised,
                                !.idx = IF raised THEN <<>> ELSE out.idx,
                                !.metrics = IF raised THEN NoMetrics
                                            ELSE summary_metrics(variant, take(view, out.idx)),
                                !.stage = IF raised THEN <<>>
                                          ELSE chart_counts(variant, recompute(variant, call.df),
                                                            call.kind)]
    /\ UNCHANGED <<variant, natRaises, inSession, session, file, last>>

\* the same filter applied to the filtered frame df_f: the index labels of
\* the rows it keeps (when the first application raised there is no df_f and
\* the statement raises again)
ReapplyFilter ==
    /\ call.fn = "filter"
    /\ call.done
    /\ ~call.again.done
    /\ LET df_f == take(call.view, call.idx)
           out == apply_filter(variant, call.kind, df_f, call.f)
       IN  call' = [call EXCEPT !.again =
                       [done |-> TRUE, raised |-> call.raised \/ out.raised,
                        idx |-> IF call.raised THEN <<>> ELSE take(call.idx, out.idx)]]
    /\ UNCHANGED <<variant, natRaises, inSession, session, file, last>>

NextFilter == ApplyFilter \/ ReapplyFilter

SpecFilter == InitFilter /\ [][NextFilter]_vars

\* q occurs in s as a substring
IsSubstring(q, s) ==
    \E k \in 1..(Len(s) - Len(q) + 1) : SubSeq(s, k, k + Len(q) - 1) = q

\* the conjunction a row of the Rick variant has to satisfy to be shown
Satisfies(r, kind, f) ==
    /\ r.Status \in Range(f.f_status)
    /\ r.Owner \in Range(f.f_owner)
    /\ \/ f.f_sel = "All"
       \/ f.f_sel = "Only overdue" /\ r.Overdue = "Yes"
       \/ f.f_sel = "Not overdue" /\ r.Overdue = "No"
    /\ \/ Blank(f.f_search)
       \/ \E c \in Range(SearchColumns(kind)) :
              IsSubstring(lower(Trimmed(f.f_search)), lower(str(r[c])))

\* C10: in the Rick variant the filtered view is the subsequence of the
\* frame, in frame order, of exactly the rows whose Status is selected, whose
\* assignee is selected, whose Overdue flag agrees with the selector, and of
\* which Job_ID, Client, Item (or Repair_Type for repairs) holds the trimmed,
\* lower-cased query as a substring when the query is not blank.
C10_FilterIsConjunction ==
    (call.fn = "filter" /\ call.done /\ variant = "rick") =>
        /\ ~call.raised
        /\ \A j \in 1..(Len(call.idx) - 1) : call.idx[j] < call.idx[j + 1]
        /\ Range(call.idx) =
              { i \in 1..Len(call.view) : Satisfies(call.view[i], call.kind, call.f) }

\* C11: filtering is idempotent: the filter applied to its own result, with
\* the same widget values, keeps exactly the rows of that result (and raises
\* exactly when the first application raised), in both variants.
C11_FilterIdempotent ==
    (call.fn = "filter" /\ call.again.done) =>
        /\ call.again.raised = call.raised
        /\ call.again.idx = call.idx

C11_Witness ==
    /\ call.fn = "filter" /\ call.again.done /\ ~call.raised
    /\ Len(call.view) = 2 /\ call.idx = <<2>> /\ call.again.idx = <<2>>
    /\ call.f.f_search = <<" ","R","i","n","g">>

\* C12: with the widgets at their defaults the filtered view is the whole
\* frame of the category: every row of the copy the display pass recomputed,
\* in frame order.
C12_DefaultFilterShowsAll ==
    \A c \in Cats :
        (last.viewed[c] /\ last.w[c] = DefaultWidgets(variant, c))
            => last.shown[c] = [i \in 1..last.listed[c] |-> i]

RECURSIVE SumSeq(_)
SumSeq(q) == IF q = <<>> THEN 0 ELSE Head(q) + SumSeq(Tail(q))

\* C13: the counts of the stage histogram add up to the number of rows of
\* the frame it was computed from, on every tab that draws one.
C13_HistogramSumsToSize ==
    \A c \in Cats :
        (last.staged[c] /\ has_stage_chart(variant, c))
            => SumSeq(last.stage[c]) = last.counted[c]

\* the number of rows of a frame with the given Status
WithStatus(df, st) == Cardinality({ i \in 1..Len(df) : df[i].Status = st })

\* C14: for the collection the aggregator is given (the filtered frame the
\* metrics are computed over) the open count is the number of rows whose
\* Status is not "Completed", the overdue count (the Rick variant's second
\* metric; the generic variant has no Overdue field) the number of rows whose
\* Overdue is "Yes", and the histogram has one entry per stage of the
\* category's list, in list order, holding the number of rows of the
\* collection with that Status; an empty collection gives zero for every
\* metric and every entry of the histogram.
C14_Aggregator ==
    (call.fn = "filter" /\ call.done /\ ~call.raised) =>
        LET coll == take(call.view, call.idx)
            stages == Statuses(call.kind)
        IN  /\ call.metrics.c1 =
                  Cardinality({ j \in 1..Len(coll) : coll[j].Status # "Completed" })
            /\ variant = "rick" =>
                  call.metrics.c2 =
                      Cardinality({ j \in 1..Len(coll) : coll[j].Overdue = "Yes" })
            /\ Len(call.stage) = Len(stages)
            /\ \A k \in 1..Len(stages) : call.stage[k] = WithStatus(coll, stages[k])
            /\ coll = <<>> =>
                  /\ call.metrics = NoMetrics
                  /\ \A k \in 1..Len(call.stage) : call.stage[k] = 0

\* C15: the stage histogram counts the rows of the filtered frame, the one
\* the metrics are computed over: a row the filter leaves out is not counted.
C15_HistogramOverFilteredView ==
    (call.fn = "filter" /\ call.done /\ ~call.raised
        /\ has_stage_chart(variant, call.kind)) =>
        LET coll == take(call.view, call.idx)
            stages == Statuses(call.kind)
        IN  \A k \in 1..Len(stages) : call.stage[k] = WithStatus(coll, stages[k])

\* the Overdue flag a row is to carry: "Yes" exactly when it is not Completed
\* and its date cell is the text of a day before the current date
ExpectedOverdue(r) ==
    IF r.Status # "Completed" /\ \E d \in 0..(Today - 1) : r.Due = isoformat(d)
    THEN "Yes" ELSE "No"

\* the derived fields of a row are what the recomputation makes of its
\* price, deposit, date and Status
DerivedOk(r) ==
    /\ BalanceOk(r)
    /\ r.Paid = (IF r.Remaining_Balance = Num(0) THEN "Yes" ELSE "No")
    /\ variant = "rick" => r.Overdue = ExpectedOverdue(r)

\* the categories a run is to recompute: both when it loads, the one of the
\* form or the editor when it inserts or edits
Touched ==
    IF last.ev.op = "open" THEN Cats
    ELSE IF last.ev.op = "edit" \/ (last.ev.op = "add" /\ form_valid(last.ev.form))
    THEN {last.ev.cat}
    ELSE {}

\* C16: a run that loads the frames, inserts a row or edits a cell carries
\* the recomputation of the category through on every row of the stored
\* frame: afterwards Remaining_Balance, Paid and (Rick variant) Overdue of
\* every row are the recomputed values, whatever they were before.
C16_RecomputeAtLoadAddEdit ==
    \A c \in Touched :
        /\ last.done[c]
        /\ \A r \in Range(session[c]) : DerivedOk(r)

\* C17: at the end of every interaction the file of a category exists and
\* holds exactly the rows of the frame in memory, in the same order: every
\* replacement of the frame (add, edit, reset) was followed by its save.
C17_FileHoldsFrame ==
    inSession =>
        \A c \in Cats :
            /\ file[c].exists
            /\ Len(file[c].rows) = Len(session[c])
            /\ read_csv(file[c].rows) = read_csv(to_csv(session[c]))

C17_Witness ==
    /\ last.ev.op = "edit" /\ last.ev.col = "Status" /\ last.done[last.ev.cat]
    /\ Len(session[last.ev.cat]) = 2
    /\ session[last.ev.cat][last.ev.i].Status = last.ev.atom
    /\ file[last.ev.cat].rows[last.ev.i].Status = last.ev.atom
    /\ last.before[last.ev.cat] = 2

\* C18: a run that is not a reset of the category leaves its frame with at
\* least as many rows as it had, and an edit leaves the number unchanged.
C18_NoRecordRemoved ==
    \A c \in Cats :
        /\ (last.ev.op # "reset" \/ last.ev.cat # c) => Len(session[c]) >= last.before[c]
        /\ last.ev.op = "edit" => Len(session[c]) = last.before[c]

C18_Witness ==
    /\ last.ev.op = "edit" /\ last.done[last.ev.cat]
    /\ Len(session[last.ev.cat]) = 2 /\ last.before[last.ev.cat] = 2
    /\ last.ev.col = "Deposit_Paid"
    /\ session[last.ev.cat][last.ev.i].Deposit_Paid = last.ev.num

\* C19: the Status of every row of a category's frame is a stage of that
\* category's list, in every state a session can be in.
C19_StatusInStageList ==
    inSession =>
        \A c \in Cats : \A r \in Range(session[c]) : r.Status \in Range(Statuses(c))

\* C20: once the recomputation pass of a category ran, Total_Price and
\* Deposit_Paid of every row are numbers that are not negative.
C20_PricesNotNegative ==
    \A c \in Cats :
        last.done[c] =>
            \A r \in StoredRows(c) :
                /\ r.Total_Price.k = "num" /\ r.Total_Price.v >= 0
                /\ r.Deposit_Paid.k = "num" /\ r.Deposit_Paid.v >= 0

\* C21: in the Rick variant a stored row that is not Completed and whose date
\* is yesterday has Overdue = "Yes"; when an edit sets its Status to
\* "Completed" and the edit's recomputation runs, the stored row has the
\* same date and Overdue = "No".
C21_CompletingClearsOverdue ==
    [][ ( /\ variant = "rick"
          /\ last'.ev.op = "edit" /\ last'.ev.col = "Status"
          /\ last'.ev.atom = "Completed"
          /\ last'.done[last'.ev.cat]
          /\ session[last'.ev.cat][last'.ev.i].Status # "Completed"
          /\ session[last'.ev.cat][last'.ev.i].Due = isoformat(Yesterday) )
        => /\ session[last'.ev.cat][last'.ev.i].Overdue = "Yes"
           /\ session'[last'.ev.cat][last'.ev.i].Status = "Completed"
           /\ session'[last'.ev.cat][last'.ev.i].Due = isoformat(Yesterday)
           /\ session'[last'.ev.cat][last'.ev.i].Overdue = "No"
           /\ file'[last'.ev.cat].rows[last'.ev.i].Overdue = "No" ]_vars

C21_Witness ==
    /\ variant = "rick"
    /\ last.ev.op = "edit" /\ last.ev.col = "Status" /\ last.ev.atom = "Completed"
    /\ last.done[last.ev.cat]
    /\ session[last.ev.cat][last.ev.i].Job_ID = <<"L","-","7">>
    /\ session[last.ev.cat][last.ev.i].Due = isoformat(Yesterday)
    /\ session[last.ev.cat][last.ev.i].Status = "Completed"
    /\ session[last.ev.cat][last.ev.i].Overdue = "No"

\* the columns the recomputation derives, and a frame without them
DerivedColumns == {"Remaining_Balance", "Paid", "Overdue"}
Entered(df) ==
    [i \in 1..Len(df) |-> [col \in (DOMAIN df[i]) \ DerivedColumns |-> df[i][col]]]

\* C22: a run in which only a filter widget changed leaves the stored frame
\* and the file of both categories with the same rows in the same order and
\* the same value in every column that is not derived, the rows the filter
\* hides included.
C22_FilterChangeKeepsStore ==
    [][ last'.ev.op = "filter"
        => \A c \in Cats :
            /\ Len(session'[c]) = Len(session[c])
            /\ Entered(session'[c]) = Entered(session[c])
            /\ file'[c].exists = file[c].exists
            /\ Len(file'[c].rows) = Len(file[c].rows)
            /\ Entered(file'[c].rows) = Entered(file[c].rows) ]_vars

\* a filter change after which the display pass hides a stored row and the
\* edit handler has saved the frame, hidden row included
C22_Witness ==
    /\ last.ev.op = "filter"
    /\ last.viewed[last.ev.cat] /\ last.done[last.ev.cat]
    /\ last.listed[last.ev.cat] = 2
    /\ Len(last.shown[last.ev.cat]) < 2
    /\ Len(session[last.ev.cat]) = 2
    /\ Len(file[last.ev.cat].rows) = 2

\* C23: an add, an edit or a reset on one category leaves the other
\* category's stored frame and file with the same number of rows and the same
\* value in every column that is not derived, in the run that also re-runs
\* the other category's recomputation and save.
C23_CategoriesIndependent ==
    [][ last'.ev.op \in {"add", "edit", "reset"}
        => \A c \in Cats \ {last'.ev.cat} :
            /\ Len(session'[c]) = Len(session[c])
            /\ Entered(session'[c]) = Entered(session[c])
            /\ Len(file'[c].rows) = Len(file[c].rows)
            /\ Entered(file'[c].rows) = Entered(file[c].rows) ]_vars

\* an add that grew its own category by one row in a run whose edit handlers
\* recomputed and saved both categories, the other one holding two rows
C23_Witness ==
    /\ last.ev.op = "add" /\ last.res = "added"
    /\ \A c \in Cats : last.done[c]
    /\ Len(session[last.ev.cat]) = last.before[last.ev.cat] + 1
    /\ \E c \in Cats \ {last.ev.cat} :
        /\ Len(session[c]) = 2 /\ last.before[c] = 2
        /\ Len(file[c].rows) = 2

====
